---- MODULE Spec2Model ----
(***************************************************************************)
(* A model of crossword.py: the Word constructor, the sparse grid of       *)
(* cells, place_a_word with its dry runs, the placement loop and the       *)
(* numbering pass of Crossword.__init__, recenter, the two renderers and   *)
(* hint_list.                                                              *)
(***************************************************************************)
EXTENDS Integers, Sequences, FiniteSets, TLC

VARIABLES word_list, cells, pc, err, pending, candidates, out, args, made, hints

vars == <<word_list, cells, pc, err, pending, candidates, out, args, made, hints>>

\* ---------------------------------------------------------------- bounds
\* number of words one Crossword is built from
MaxWords == 3
\* length of the raw text handed to the Word constructor
MaxTextLen == 3

\* ------------------------------------------------------------ primitives
\* Python's None
None == [none |-> TRUE]

Position(r, c) == [row |-> r, col |-> c]

\* Position.__add__ with a Position operand
PosAdd(p, q) == Position(p.row + q.row, p.col + q.col)

\* Position.__add__ with an int operand
PosAddInt(p, n) == Position(p.row + n, p.col + n)

\* Position.__sub__ with a Position operand
PosSub(p, q) == Position(p.row - q.row, p.col - q.col)

\* tuple order of Position (row first, then col)
PosLess(p, q) == p.row < q.row \/ (p.row = q.row /\ p.col < q.col)

ACROSS == "ACROSS"
DOWN == "DOWN"
Direction == {ACROSS, DOWN}

\* Direction.value
DirValue(d) == IF d = ACROSS THEN Position(0, 1) ELSE Position(1, 0)

\* Direction.__mul__
DirMul(d, n) == Position(DirValue(d).row * n, DirValue(d).col * n)

Bearing(p, d) == [position |-> p, direction |-> d]

\* ------------------------------------------------------------- strings
\* A string is a sequence of one-character strings.
\* str.upper on one character
UpperChar(ch) ==
    CASE ch = "a" -> "A"
      [] ch = "c" -> "C"
      [] ch = "k" -> "K"
      [] ch = "o" -> "O"
      [] ch = "r" -> "R"
      [] ch = "t" -> "T"
      [] OTHER -> ch

\* str.upper
Upper(s) == [i \in 1..Len(s) |-> UpperChar(s[i])]

IsSpace(ch) == ch = " "

RECURSIVE LStrip(_)
LStrip(s) == IF s # <<>> /\ IsSpace(Head(s)) THEN LStrip(Tail(s)) ELSE s

RECURSIVE RStrip(_)
RStrip(s) ==
    IF s # <<>> /\ IsSpace(s[Len(s)]) THEN RStrip(SubSeq(s, 1, Len(s) - 1)) ELSE s

\* str.strip
Strip(s) == RStrip(LStrip(s))

\* ----------------------------------------------------------------- Word
\* Word.__init__ with the threshold one too low
WordInitShort(t, hint, mandatory) ==
    LET word == Strip(Upper(t)) IN
    IF Len(word) < 1
    THEN [ok |-> FALSE, exc |-> "ValueError"]
    ELSE [ok |-> TRUE, exc |-> "",
          w |-> [word |-> word, hint |-> Strip(hint), start |-> None,
                 required |-> mandatory, number |-> 0]]

\* Word.__init__: the Word it builds, or the error it raises
WordInit(t, hint, mandatory) ==
    LET word == Strip(Upper(t)) IN
    IF Len(word) < 2
    THEN [ok |-> FALSE, exc |-> "ValueError"]
    ELSE [ok |-> TRUE, exc |-> "",
          w |-> [word |-> word, hint |-> Strip(hint), start |-> None,
                 required |-> mandatory, number |-> 0]]

\* Word.__bool__
Placed(w) == w.start # None

\* ----------------------------------------------------------------- Cell
\* Cell.__init__ for Cell(letter): one character, uppercased and stripped
Cell(letter) ==
    [letter |-> IF IsSpace(UpperChar(letter)) THEN "" ELSE UpperChar(letter),
     word_across |-> FALSE, word_down |-> FALSE, is_valid |-> TRUE, number |-> 0]

\* Cell.available
Available(c) == c.is_valid /\ ~(c.word_down /\ c.word_across)

\* an assignment that replaces the dict by one holding the new entry only
PutAlone(cw, p, c) == [q \in {p} |-> c]

\* cw[p] = c on a dict
Put(cw, p, c) == [q \in DOMAIN cw \cup {p} |-> IF q = p THEN c ELSE cw[q]]

NoCells == [p \in {} |-> None]

\* ---------------------------------------------------------- place_a_word
\* the loop body without the letter comparison
PlaceStepNoLetterCheck(cw, letter, p, d) ==
    IF p \notin DOMAIN cw
    THEN [ok |-> TRUE, cw |-> Put(cw, p, Cell(letter))]
    ELSE LET c == cw[p] IN
         IF d = DOWN /\ c.word_down
         THEN [ok |-> FALSE, cw |-> cw]
         ELSE IF d = ACROSS /\ c.word_across
         THEN [ok |-> FALSE, cw |-> cw]
         ELSE [ok |-> TRUE, cw |-> Put(cw, p, Cell(letter))]

\* One iteration of the loop of place_a_word at position p.  On an occupied
\* cell the orientation flag is set on the old Cell object c, and then
\* cw[p] is rebound to a fresh Cell(letter): the old object, and the flag
\* with it, is dropped from the dict.
PlaceStep(cw, letter, p, d) ==
    IF p \notin DOMAIN cw
    THEN [ok |-> TRUE, cw |-> Put(cw, p, Cell(letter))]
    ELSE LET c == cw[p] IN
         IF c.letter # "" /\ c.letter # letter
         THEN [ok |-> FALSE, cw |-> cw]
         ELSE IF d = DOWN /\ c.word_down
         THEN [ok |-> FALSE, cw |-> cw]
         ELSE IF d = ACROSS /\ c.word_across
         THEN [ok |-> FALSE, cw |-> cw]
         ELSE LET flagged == IF d = DOWN
                             THEN [c EXCEPT !.word_down = TRUE]
                             ELSE [c EXCEPT !.word_across = TRUE]
                  withFlag == Put(cw, p, flagged)
              IN [ok |-> TRUE, cw |-> Put(withFlag, p, Cell(letter))]

\* the loop of place_a_word from index idx (1-based) on
RECURSIVE PlaceLoop(_, _, _, _)
PlaceLoop(cw, word, b, idx) ==
    IF idx > Len(word)
    THEN [ok |-> TRUE, cw |-> cw]
    ELSE LET r == PlaceStep(cw, word[idx],
                            PosAdd(b.position, DirMul(b.direction, idx - 1)),
                            b.direction)
         IN IF r.ok THEN PlaceLoop(r.cw, word, b, idx + 1) ELSE r

\* place_a_word without the deepcopy: a dry run writes to the caller's dict
PlaceAWordNoCopy(cs, w, b, commit) ==
    IF b = None
    THEN [exc |-> "AttributeError", cells |-> cs, start |-> w.start]
    ELSE LET r == PlaceLoop(cs, w.word, b, 1) IN
         [exc |-> IF r.ok THEN "" ELSE "CellOccupiedError",
          cells |-> r.cw,
          start |-> IF r.ok THEN b ELSE w.start]

\* place_a_word(cells, w, b, commit): the exception raised ("" for none),
\* the caller's dict afterwards and w.start afterwards.  A dry run works on
\* a deepcopy, so the caller's dict is untouched; w itself is not copied.
PlaceAWord(cs, w, b, commit) ==
    IF b = None
    THEN [exc |-> "AttributeError", cells |-> cs, start |-> w.start]
    ELSE LET r == PlaceLoop(cs, w.word, b, 1) IN
         [exc |-> IF r.ok THEN "" ELSE "CellOccupiedError",
          cells |-> IF commit THEN r.cw ELSE cs,
          start |-> IF r.ok THEN b ELSE w.start]

\* ------------------------------------------------------ candidate search
\* Crossword.letter_list[letter]
LetterList(cs, letter) ==
    {bg \in {Bearing(p, d) : p \in DOMAIN cs, d \in Direction} :
        LET content == cs[bg.position] IN
        /\ content.is_valid /\ Available(content)
        /\ content.letter = letter
        /\ (bg.direction = DOWN => ~content.word_down)
        /\ (bg.direction = ACROSS => ~content.word_across)}

\* find_candidate_intersections with the offset added instead of subtracted
FindCandidateIntersectionsAdded(cs, w) ==
    [k \in 1..Len(w.word) |->
        {Bearing(PosAdd(c.position, DirMul(c.direction, k - 1)), c.direction) :
            c \in LetterList(cs, w.word[k])}]

\* Crossword.find_candidate_intersections: entry k holds the options
\* appended for offset k-1.  letter_list yields a set, whose iteration
\* order is not fixed, so the options of one offset are kept as a set.
FindCandidateIntersections(cs, w) ==
    [k \in 1..Len(w.word) |->
        {Bearing(PosSub(c.position, DirMul(c.direction, k - 1)), c.direction) :
            c \in LetterList(cs, w.word[k])}]

\* pick_random_empty_cell with the anchor at the origin
PickRandomEmptyCellOrigin(cs) ==
    IF DOMAIN cs = {}
    THEN {Bearing(Position(0, 0), d) : d \in {DOWN, ACROSS}}
    ELSE {None}

\* Crossword.pick_random_empty_cell: every value it can return
PickRandomEmptyCell(cs) ==
    IF DOMAIN cs = {}
    THEN {Bearing(Position(7, 7), d) : d \in {DOWN, ACROSS}}
    ELSE {None}

\* ------------------------------------------------------------- numbering
\* sorted(self.word_list, key=lambda w: w.start) raises TypeError when two
\* keys have to be ordered by something that has no "<": None against
\* anything, or two different Directions after equal Positions.
SortRaises(wl) ==
    \E i, j \in 1..Len(wl) :
        /\ i # j
        /\ \/ wl[i].start = None
           \/ wl[j].start = None
           \/ /\ wl[i].start.position = wl[j].start.position
              /\ wl[i].start.direction # wl[j].start.direction

\* index i comes before index j in the stable sort by start
SortsBefore(wl, i, j) ==
    \/ PosLess(wl[i].start.position, wl[j].start.position)
    \/ (wl[i].start.position = wl[j].start.position /\ i < j)

\* the indices of word_list in the order sorted() yields them
SortedOrder(wl) ==
    [r \in 1..Len(wl) |->
        CHOOSE i \in 1..Len(wl) :
            Cardinality({j \in 1..Len(wl) : j # i /\ SortsBefore(wl, j, i)}) = r - 1]

\* the numbering loop from the k-th sorted word on; current_position is
\* bound once, to Position(-1, -1), and never assigned in the loop
RECURSIVE NumberLoop(_, _, _, _, _)
NumberLoop(order, k, current_number, wl, cs) ==
    IF k > Len(order)
    THEN [word_list |-> wl, cells |-> cs]
    ELSE LET i == order[k]
             word == wl[i]
             current_position == Position(-1, -1)
         IN IF word.start = None
            THEN NumberLoop(order, k + 1, current_number, wl, cs)
            ELSE LET n == IF current_position # word.start.position
                          THEN current_number + 1
                          ELSE current_number
                 IN NumberLoop(order, k + 1, n,
                               [wl EXCEPT ![i].number = n],
                               [cs EXCEPT ![word.start.position].number = n])

\* ------------------------------------------------------ bounding box
Min(S) == CHOOSE m \in S : \A n \in S : m <= n
Max(S) == CHOOSE m \in S : \A n \in S : n <= m

Rows(cs) == {p.row : p \in DOMAIN cs}
Cols(cs) == {p.col : p \in DOMAIN cs}

\* Crossword.extrema over a non-empty dict: <<minimum corner, maximum corner>>
Extrema(cs) ==
    <<Position(Min(Rows(cs)), Min(Cols(cs))), Position(Max(Rows(cs)), Max(Cols(cs)))>>

\* recenter that shifts the rows only
RecenterRowsOnly(cs, wl) ==
    LET offset == Position(Extrema(cs)[1].row, 0) IN
    IF Extrema(cs)[1] = Position(0, 0)
    THEN [cells |-> cs, word_list |-> wl]
    ELSE [cells |-> [q \in {PosSub(p, offset) : p \in DOMAIN cs} |-> cs[PosAdd(q, offset)]],
          word_list |-> [i \in 1..Len(wl) |->
              [wl[i] EXCEPT !.start = Bearing(PosSub(wl[i].start.position, offset),
                                              wl[i].start.direction)]]]

\* recenter that rekeys the cells and leaves the words' starts alone
RecenterCellsOnly(cs, wl) ==
    LET offset == Extrema(cs)[1] IN
    IF offset = Position(0, 0)
    THEN [cells |-> cs, word_list |-> wl]
    ELSE [cells |-> [q \in {PosSub(p, offset) : p \in DOMAIN cs} |-> cs[PosAdd(q, offset)]],
          word_list |-> wl]

\* Crossword.recenter on a non-empty dict whose words all have a start
Recenter(cs, wl) ==
    LET offset == Extrema(cs)[1] IN
    IF offset = Position(0, 0)
    THEN [cells |-> cs, word_list |-> wl]
    ELSE [cells |-> [q \in {PosSub(p, offset) : p \in DOMAIN cs} |-> cs[PosAdd(q, offset)]],
          word_list |-> [i \in 1..Len(wl) |->
              [wl[i] EXCEPT !.start = Bearing(PosSub(wl[i].start.position, offset),
                                              wl[i].start.direction)]]]

\* the exception recenter raises, "" for none: extrema indexes an empty
\* list when there is no cell, and word.start.position fails on None
RecenterRaises(cs, wl) ==
    IF DOMAIN cs = {} THEN "IndexError"
    ELSE IF Extrema(cs)[1] # Position(0, 0) /\ \E i \in 1..Len(wl) : wl[i].start = None
    THEN "AttributeError"
    ELSE ""

\* ------------------------------------------------------------- rendering
\* display with the letter taking priority over the number
DisplayLetterFirst(c, show_solution) ==
    IF show_solution /\ c.letter # "" THEN c.letter \o " "
    ELSE IF c.number # 0 THEN ToString(c.number) \o " "
    ELSE IF ~show_solution THEN "[]"
    ELSE "  "

\* Cell.display
Display(c, show_solution) ==
    IF c.number # 0 THEN ToString(c.number) \o " "
    ELSE IF ~show_solution THEN "[]"
    ELSE IF c.letter # "" THEN c.letter \o " "
    ELSE "  "

\* the slot a Python list of length n gives index i, or -1 for IndexError
PyIndex(i, n) ==
    IF 0 <= i /\ i < n THEN i
    ELSE IF 0 - n <= i /\ i < 0 THEN n + i
    ELSE -1

\* the array size without the + 1
RenderSizeNoPlusOne(cs) == Extrema(cs)[2]

\* size = self.extrema[1] + 1
RenderSize(cs) == PosAddInt(Extrema(cs)[2], 1)

\* the body of solution_only / terminal_display after the recenter: the
\* array filled with fill and overwritten at every cell, or the IndexError.
\* Cells that land in range land in slots of their own.
Render(cs, fill, show_solution) ==
    LET size == RenderSize(cs)
        slot(p) == <<PyIndex(p.row, size.row), PyIndex(p.col, size.col)>>
    IN IF \E p \in DOMAIN cs : slot(p)[1] = -1 \/ slot(p)[2] = -1
       THEN [exc |-> "IndexError", out |-> <<>>]
       ELSE [exc |-> "",
             out |-> [r \in 0..(size.row - 1) |-> [c \in 0..(size.col - 1) |->
                 IF \E p \in DOMAIN cs : slot(p) = <<r, c>>
                 THEN Display(cs[CHOOSE p \in DOMAIN cs : slot(p) = <<r, c>>], show_solution)
                 ELSE fill]]]

\* ------------------------------------------------------------ hint list
\* "".join of a sequence of characters
RECURSIVE Join(_)
Join(s) == IF s = <<>> THEN "" ELSE Head(s) \o Join(Tail(s))

\* f"{w.number}. {w.hint}"
HintEntry(w) == ToString(w.number) \o ". " \o Join(w.hint)

\* the indices of word_list in the order sorted(key=lambda w: w.number)
\* yields them (the sort is stable)
SortedByNumber(wl) ==
    [r \in 1..Len(wl) |->
        CHOOSE i \in 1..Len(wl) :
            Cardinality({j \in 1..Len(wl) :
                \/ wl[j].number < wl[i].number
                \/ (wl[j].number = wl[i].number /\ j < i)}) = r - 1]

\* the comprehension of hint_list from the k-th sorted word on
RECURSIVE HintLoop(_, _, _, _)
HintLoop(wl, order, k, d) ==
    IF k > Len(order) THEN <<>>
    ELSE IF wl[order[k]].start.direction = d
    THEN <<HintEntry(wl[order[k]])>> \o HintLoop(wl, order, k + 1, d)
    ELSE HintLoop(wl, order, k + 1, d)

\* hint_list without the sort
HintListUnsorted(wl, d) == HintLoop(wl, [r \in 1..Len(wl) |-> r], 1, d)

\* Crossword.hint_list(d) when every word has a start
HintList(wl, d) == HintLoop(wl, SortedByNumber(wl), 1, d)

\* ------------------------------------------------------ accessor queries
\* A Word defines __eq__ and no __hash__, so putting one in a set raises
\* TypeError; a set comprehension that selects no word builds the empty set.
RequiredWords(wl) ==
    IF \E i \in 1..Len(wl) : wl[i].required
    THEN [exc |-> "TypeError", set |-> {}]
    ELSE [exc |-> "", set |-> {}]

UnplacedWords(wl) ==
    IF \E i \in 1..Len(wl) : ~Placed(wl[i])
    THEN [exc |-> "TypeError", set |-> {}]
    ELSE [exc |-> "", set |-> {}]

\* Crossword.missing_mandatory_words: unplaced_words & required_words
MissingMandatoryWords(wl) ==
    IF UnplacedWords(wl).exc # "" THEN UnplacedWords(wl)
    ELSE IF RequiredWords(wl).exc # "" THEN RequiredWords(wl)
    ELSE [exc |-> "", set |-> UnplacedWords(wl).set \cap RequiredWords(wl).set]

\* ------------------------------------------------------------ the inputs
\* the (text, mandatory) pairs a Crossword is built from; the hint is the
\* text itself, as in random_crossword_words
Pool ==
    {[text |-> <<"c", "a", "t">>, mandatory |-> TRUE],
     [text |-> <<"C", "a", "r">>, mandatory |-> TRUE],
     [text |-> <<"a", "r", "t", " ">>, mandatory |-> TRUE],
     [text |-> <<" ", "o", "k">>, mandatory |-> FALSE]}

CAT == <<"C", "A", "T">>
CAR == <<"C", "A", "R">>
ART == <<"A", "R", "T">>
OK == <<"O", "K">>

\* the characters raw texts are made of
Chars == {"a", "A", "b", " "}

RECURSIVE SeqsUpTo(_, _)
SeqsUpTo(S, n) ==
    IF n = 0 THEN {<<>>}
    ELSE LET shorter == SeqsUpTo(S, n - 1) IN
         shorter \cup {Append(t, ch) : t \in shorter, ch \in S}

\* the arguments of one call of the Word constructor
ArgSet ==
    {[text |-> t, hint |-> h, mandatory |-> m] :
        t \in SeqsUpTo(Chars, MaxTextLen), h \in {<<" ", "h">>}, m \in BOOLEAN}

\* ------------------------------------------------------------ Crossword
Init ==
    /\ word_list = <<>>
    /\ cells = NoCells
    /\ pc = "next"
    /\ err = ""
    /\ pending = <<>>
    /\ candidates = {}
    /\ out = <<>>
    /\ args = None
    /\ made = None
    /\ hints = None

\* the word whose placement is under way
Current == word_list[Len(word_list)]

\* for word in words: the next Word arrives, is appended, and its candidate
\* intersections are listed
Submit ==
    /\ pc = "next"
    /\ Len(word_list) < MaxWords
    /\ \E a \in Pool :
         LET word == WordInit(a.text, a.text, a.mandatory).w IN
         /\ word_list' = Append(word_list, word)
         /\ pending' = FindCandidateIntersections(cells, word)
    /\ candidates' = {}
    /\ pc' = "validate"
    /\ UNCHANGED <<cells, err, out, args, made, hints>>

\* the offsets that still have options to try
Untried == {k \in 1..Len(pending) : pending[k] # {}}

\* one iteration of the validation loop: a dry run of the next option.  The
\* list candidates is kept as the set of its elements, which is all that
\* random.choice depends on.
DryRun ==
    /\ pc = "validate"
    /\ Untried # {}
    /\ LET k == Min(Untried) IN
       \E candidate \in pending[k] :
         LET r == PlaceAWord(cells, Current, candidate, FALSE) IN
         /\ pending' = [pending EXCEPT ![k] = @ \ {candidate}]
         /\ candidates' = IF r.exc = "" THEN candidates \cup {candidate} ELSE candidates
         /\ cells' = r.cells
         /\ word_list' = [word_list EXCEPT ![Len(word_list)].start = r.start]
    /\ UNCHANGED <<pc, err, out, args, made, hints>>

\* the pick taken among every option tried, validated or not
ChoicesAnyOption ==
    IF candidates = {}
    THEN PickRandomEmptyCell(cells)
    ELSE UNION {FindCandidateIntersections(cells, Current)[k] : k \in 1..Len(pending)}

\* the values random.choice(candidates) can return at line 121
Choices ==
    IF candidates = {}
    THEN PickRandomEmptyCell(cells)
    ELSE candidates

\* lines 116-121: the fallback when nothing validated, the random pick and
\* the real placement
Commit ==
    /\ pc = "validate"
    /\ Untried = {}
    /\ \E b \in Choices :
         LET r == PlaceAWord(cells, Current, b, TRUE) IN
         /\ cells' = r.cells
         /\ word_list' = [word_list EXCEPT ![Len(word_list)].start = r.start]
         /\ pc' = IF r.exc = "" THEN "next" ELSE "error"
         /\ err' = r.exc
    /\ pending' = <<>>
    /\ candidates' = {}
    /\ UNCHANGED <<out, args, made, hints>>

\* lines 122-130: the words are exhausted and the numbers are assigned
AssignNumbers ==
    /\ pc = "next"
    /\ IF SortRaises(word_list)
       THEN /\ pc' = "error"
            /\ err' = "TypeError"
            /\ UNCHANGED <<word_list, cells>>
       ELSE LET r == NumberLoop(SortedOrder(word_list), 1, 0, word_list, cells) IN
            /\ word_list' = r.word_list
            /\ cells' = r.cells
            /\ pc' = "done"
            /\ err' = ""
    /\ UNCHANGED <<pending, candidates, out, args, made, hints>>

\* a call of recenter on the constructed Crossword
RecenterCall ==
    /\ pc = "done"
    /\ IF RecenterRaises(cells, word_list) # ""
       THEN /\ pc' = "error"
            /\ err' = RecenterRaises(cells, word_list)
            /\ UNCHANGED <<word_list, cells>>
       ELSE /\ cells' = Recenter(cells, word_list).cells
            /\ word_list' = Recenter(cells, word_list).word_list
            /\ UNCHANGED <<pc, err>>
    /\ UNCHANGED <<pending, candidates, out, args, made, hints>>

\* Crossword.solution_only: recenter, then the array of display(True)
SolutionOnly ==
    /\ pc = "done"
    /\ IF RecenterRaises(cells, word_list) # ""
       THEN /\ pc' = "error"
            /\ err' = RecenterRaises(cells, word_list)
            /\ UNCHANGED <<word_list, cells, out>>
       ELSE LET rc == Recenter(cells, word_list)
                r == Render(rc.cells, "  ", TRUE)
            IN /\ cells' = rc.cells
               /\ word_list' = rc.word_list
               /\ out' = r.out
               /\ err' = r.exc
               /\ pc' = IF r.exc = "" THEN "done" ELSE "error"
    /\ UNCHANGED <<pending, candidates, args, made, hints>>

\* Crossword.terminal_display: recenter, then the array of display(False)
TerminalDisplay ==
    /\ pc = "done"
    /\ IF RecenterRaises(cells, word_list) # ""
       THEN /\ pc' = "error"
            /\ err' = RecenterRaises(cells, word_list)
            /\ UNCHANGED <<word_list, cells, out>>
       ELSE LET rc == Recenter(cells, word_list)
                r == Render(rc.cells, "<>", FALSE)
            IN /\ cells' = rc.cells
               /\ word_list' = rc.word_list
               /\ out' = r.out
               /\ err' = r.exc
               /\ pc' = IF r.exc = "" THEN "done" ELSE "error"
    /\ UNCHANGED <<pending, candidates, args, made, hints>>

\* a call of hint_list(d); w.start.direction fails on a word without start
HintListCall ==
    /\ pc = "done"
    /\ \E d \in Direction :
         IF \E i \in 1..Len(word_list) : word_list[i].start = None
         THEN /\ pc' = "error"
              /\ err' = "AttributeError"
              /\ UNCHANGED hints
         ELSE /\ hints' = [d |-> d, list |-> HintList(word_list, d)]
              /\ UNCHANGED <<pc, err>>
    /\ UNCHANGED <<word_list, cells, pending, candidates, out, args, made>>

Next ==
    \/ Submit
    \/ DryRun
    \/ Commit
    \/ AssignNumbers
    \/ RecenterCall
    \/ SolutionOnly
    \/ TerminalDisplay
    \/ HintListCall

Spec == Init /\ [][Next]_vars

\* ------------------------------------------------- the Word constructor
InitWord ==
    /\ word_list = <<>>
    /\ cells = NoCells
    /\ pc = "construct"
    /\ err = ""
    /\ pending = <<>>
    /\ candidates = {}
    /\ out = <<>>
    /\ args \in ArgSet
    /\ made = None
    /\ hints = None

\* Word(text, hint, mandatory)
Construct ==
    /\ pc = "construct"
    /\ made' = WordInit(args.text, args.hint, args.mandatory)
    /\ pc' = "constructed"
    /\ err' = made'.exc
    /\ UNCHANGED <<word_list, cells, pending, candidates, out, args, hints>>

NextWord == Construct

SpecWord == InitWord /\ [][NextWord]_vars

\* ===================================================================
\* Properties
\* ===================================================================
\* the words whose placement has been committed
Committed ==
    {i \in 1..Len(word_list) :
        /\ pc = "validate" => i < Len(word_list)
        /\ word_list[i].start # None}

\* the Position of the k-th letter (1-based) of a placed word
LetterPos(w, k) == PosAdd(w.start.position, DirMul(w.start.direction, k - 1))

\* the Positions a placed word covers
Covered(w) == {LetterPos(w, k) : k \in 1..Len(w.word)}

Texts == [i \in 1..Len(word_list) |-> word_list[i].word]

\* C1: after every committed placement, and after any later recenter, every
\* placed word reads letter by letter off the grid, so two placed words that
\* cover the same Position agree on the letter there.
C1_WordsReadOffGrid ==
    /\ \A i \in Committed : \A k \in 1..Len(word_list[i].word) :
         /\ LetterPos(word_list[i], k) \in DOMAIN cells
         /\ cells[LetterPos(word_list[i], k)].letter = word_list[i].word[k]
    /\ \A i, j \in Committed :
         \A k \in 1..Len(word_list[i].word), l \in 1..Len(word_list[j].word) :
            LetterPos(word_list[i], k) = LetterPos(word_list[j], l)
                => word_list[i].word[k] = word_list[j].word[l]

\* two different committed words cross, and the layout has been recentered
C1_Witness ==
    /\ pc = "done"
    /\ DOMAIN cells # {}
    /\ Extrema(cells)[1] = Position(0, 0)
    /\ \E i, j \in Committed :
         /\ word_list[i].word # word_list[j].word
         /\ Covered(word_list[i]) \cap Covered(word_list[j]) # {}

\* C2: no Position is covered by two committed words of the same
\* orientation.
C2_OneWordPerOrientation ==
    \A i, j \in Committed :
        (i # j /\ word_list[i].start.direction = word_list[j].start.direction)
            => Covered(word_list[i]) \cap Covered(word_list[j]) = {}

\* C3: a word with no validated candidate is placed by the fallback, so the
\* placement never raises and every word that went through the placement has
\* its start set.
C3_FallbackAlwaysPlaces ==
    /\ ~(pc = "error" /\ err \in {"AttributeError", "CellOccupiedError"})
    /\ pc \in {"next", "done"} => \A i \in 1..Len(word_list) : word_list[i].start # None

\* C4: numbering completes for every layout, and afterwards two words with
\* the same start Position have the same number.
C4_SharedStartSharedNumber ==
    /\ ~(pc = "error" /\ err = "TypeError")
    /\ pc = "done" =>
         \A i, j \in 1..Len(word_list) :
            word_list[i].start.position = word_list[j].start.position
                => word_list[i].number = word_list[j].number

\* C5: during the placement run a word stays unplaced while its candidates
\* are validated, and a start that is set is never changed.
C5_StartWrittenOnce ==
    [][pc # "done" =>
         /\ pc' = "validate" => word_list'[Len(word_list')].start = None
         /\ \A i \in 1..Len(word_list) :
              word_list[i].start # None => word_list'[i].start = word_list[i].start]_vars

\* the words submitted are CAT, CAR, ART, all required, and no other
CatCarArt ==
    /\ Texts = <<CAT, CAR, ART>>
    /\ \A i \in 1..3 : word_list[i].required

\* C6: for the required words CAT, CAR, ART the construction completes under
\* every random choice, every start is set, the missing-mandatory-words query
\* is the empty set, CAR crosses CAT, ART crosses CAT or CAR, and the words
\* agree on every shared cell.
C6_CatCarArt ==
    CatCarArt =>
        /\ pc # "error"
        /\ pc = "done" =>
             /\ \A i \in 1..3 : word_list[i].start # None
             /\ MissingMandatoryWords(word_list) = [exc |-> "", set |-> {}]
             /\ \E k, l \in 1..3 :
                  /\ LetterPos(word_list[2], k) = LetterPos(word_list[1], l)
                  /\ CAR[k] = CAT[l]
                  /\ CAR[k] \in {"C", "A"}
             /\ \E k, l \in 1..3 : \E j \in {1, 2} :
                  /\ LetterPos(word_list[3], k) = LetterPos(word_list[j], l)
                  /\ ART[k] = word_list[j].word[l]
             /\ \A i, j \in 1..3 : \A k, l \in 1..3 :
                  LetterPos(word_list[i], k) = LetterPos(word_list[j], l)
                      => word_list[i].word[k] = word_list[j].word[l]

\* a step of recenter, called directly or by a renderer, on a layout with a
\* placed word (hint_list is the one other call on a constructed Crossword)
RecenterStep == pc = "done" /\ pc' = "done" /\ hints' = hints /\ DOMAIN cells # {}

\* C7: on a constructed layout with a placed word, a recenter leaves the
\* minimum row and the minimum column at 0, and one more recenter changes
\* neither the cells nor any start.
C7_RecenterIdempotent ==
    [][RecenterStep =>
         /\ Min(Rows(cells')) = 0
         /\ Min(Cols(cells')) = 0
         /\ Recenter(cells', word_list').cells = cells'
         /\ Recenter(cells', word_list').word_list = word_list']_vars

\* a layout of several words that a call of recenter has moved to the origin
C7_Witness ==
    /\ pc = "done"
    /\ out = <<>>
    /\ Len(word_list) >= 2
    /\ Min(Rows(cells)) = 0
    /\ Min(Cols(cells)) = 0
    /\ \E i \in 1..Len(word_list) : word_list[i].start.position # Position(7, 7)

\* C8: after numbering, a word whose start Position is before or equal to
\* another's in row-major order has a number that is not larger.
C8_NumbersMonotone ==
    pc = "done" =>
        \A i, j \in 1..Len(word_list) :
            (\/ PosLess(word_list[i].start.position, word_list[j].start.position)
             \/ word_list[i].start.position = word_list[j].start.position)
                => word_list[i].number <= word_list[j].number

\* C9: on a layout with a placed word a renderer returns an array, which has
\* max_row - min_row + 1 rows of max_col - min_col + 1 columns each, and
\* every occupied Position is a non-negative index inside it.
C9_RenderDimensions ==
    /\ (pc = "error" /\ err = "IndexError") => DOMAIN cells = {}
    /\ out # <<>> =>
         /\ DOMAIN out = 0..(Max(Rows(cells)) - Min(Rows(cells)))
         /\ \A r \in DOMAIN out :
              DOMAIN out[r] = 0..(Max(Cols(cells)) - Min(Cols(cells)))
         /\ \A p \in DOMAIN cells :
              /\ p.row \in DOMAIN out
              /\ p.col \in DOMAIN out[p.row]

\* an array of more than one row and more than one column has been rendered
C9_Witness ==
    /\ out # <<>>
    /\ Cardinality(DOMAIN out) > 1
    /\ Cardinality(DOMAIN out[0]) > 1
    /\ Len(word_list) >= 2

\* the length of a raw text between its first and its last non-blank
TrimmedLen(t) ==
    LET inked == {i \in 1..Len(t) : t[i] # " "} IN
    IF inked = {} THEN 0 ELSE Max(inked) - Min(inked) + 1

\* C10: the constructor fails when the trimmed text is shorter than 2, and
\* otherwise yields a Word that is unplaced and has number 0.
C10_WordConstructor ==
    made # None =>
        /\ TrimmedLen(args.text) < 2 => (~made.ok /\ made.exc # "")
        /\ TrimmedLen(args.text) >= 2 =>
             /\ made.ok
             /\ made.w.start = None
             /\ made.w.number = 0
             /\ Len(made.w.word) = TrimmedLen(args.text)

\* a Word was built from a text that the constructor had to trim
C10_Witness ==
    /\ made # None
    /\ made.ok
    /\ Len(args.text) > Len(made.w.word)
    /\ ~Placed(made.w)

\* C11: a single word submitted to the empty grid has no candidate, is placed
\* by the fallback at (7, 7) ACROSS or DOWN without an error, the grid then
\* holds exactly the word's cells in a line from the anchor with its letters
\* in order, and numbering gives the word the number 1.
C11_FirstWordFallback ==
    Len(word_list) = 1 =>
        LET w == word_list[1] IN
        /\ pc # "error"
        /\ pc = "validate" => (Untried = {} /\ candidates = {} /\ w.start = None)
        /\ pc = "next" =>
             /\ w.start.position = Position(7, 7)
             /\ w.start.direction \in {ACROSS, DOWN}
        /\ pc \in {"next", "done"} =>
             /\ DOMAIN cells = Covered(w)
             /\ Cardinality(DOMAIN cells) = Len(w.word)
             /\ \A k \in 1..Len(w.word) : cells[LetterPos(w, k)].letter = w.word[k]
        /\ pc = "done" => w.number = 1

\* the two-letter word OK, alone, has been placed at the anchor
C11_Witness ==
    /\ Len(word_list) = 1
    /\ pc = "next"
    /\ word_list[1].word = OK
    /\ word_list[1].start.position = Position(7, 7)
    /\ Cardinality(DOMAIN cells) = 2

\* the words of word_list that run in direction d
Running(d) == {i \in 1..Len(word_list) : word_list[i].start.direction = d}

\* C12: hint_list(d) holds exactly one entry "<number>. <hint>" for each
\* placed word of direction d, none for a word of the other direction, and
\* the entries are in ascending order of word number.
C12_HintList ==
    hints # None =>
        LET L == hints.list
            owner(k) == {i \in Running(hints.d) : HintEntry(word_list[i]) = L[k]}
        IN /\ Len(L) = Cardinality(Running(hints.d))
           /\ \A i \in Running(hints.d) :
                Cardinality({k \in 1..Len(L) : L[k] = HintEntry(word_list[i])}) = 1
           /\ \A k \in 1..Len(L) : Cardinality(owner(k)) = 1
           /\ \A k, l \in 1..Len(L) :
                k < l => \A i \in owner(k), j \in owner(l) :
                    word_list[i].number <= word_list[j].number

\* a hint list of two entries, from a layout that also has a word of the
\* other direction, whose order is not the order of submission
C12_Witness ==
    /\ hints # None
    /\ Len(hints.list) = 2
    /\ Cardinality(Running(hints.d)) < Len(word_list)
    /\ \E i, j \in Running(hints.d) : i < j /\ word_list[j].number < word_list[i].number

\* a step from one rendered view to the other view of the same layout
ViewSwitch == pc = "done" /\ pc' = "done" /\ out # <<>> /\ out' # out

\* the two arrays have the same rows and columns
SameShape(a, b) == DOMAIN a = DOMAIN b /\ \A r \in DOMAIN a : DOMAIN a[r] = DOMAIN b[r]

\* C13 as stated: the blank view and the solution view of one layout have the
\* same dimensions, the same entry at every unoccupied and every numbered
\* Position, and differ only at unnumbered occupied Positions (letter against
\* placeholder).
C13_ViewsSameFill ==
    [][ViewSwitch =>
         /\ SameShape(out, out')
         /\ \A r \in DOMAIN out : \A c \in DOMAIN out[r] :
              LET p == Position(r, c) IN
              IF p \notin DOMAIN cells' \/ cells'[p].number # 0
              THEN out[r][c] = out'[r][c]
              ELSE {out[r][c], out'[r][c]} = {cells'[p].letter \o " ", "[]"}]_vars

\* C13 amended: the two views have the same dimensions and the same entry,
\* the number, at every numbered Position; at an unoccupied Position the
\* solution view holds "  " and the blank view "<>"; at an unnumbered occupied
\* Position the solution view holds the letter and the blank view "[]".
C13_ViewsAmended ==
    [][ViewSwitch =>
         /\ SameShape(out, out')
         /\ \A r \in DOMAIN out : \A c \in DOMAIN out[r] :
              LET p == Position(r, c) IN
              IF p \notin DOMAIN cells' THEN {out[r][c], out'[r][c]} = {"  ", "<>"}
              ELSE IF cells'[p].number # 0
              THEN /\ out[r][c] = out'[r][c]
                   /\ out[r][c] = ToString(cells'[p].number) \o " "
              ELSE {out[r][c], out'[r][c]} = {cells'[p].letter \o " ", "[]"}]_vars

\* a blank view with an unoccupied slot, a hidden letter and a number
C13_Witness ==
    /\ out # <<>>
    /\ \E r \in DOMAIN out : \E c \in DOMAIN out[r] : out[r][c] = "<>"
    /\ \E r \in DOMAIN out : \E c \in DOMAIN out[r] : out[r][c] = "[]"
    /\ \E p \in DOMAIN cells : cells[p].number # 0 /\ out[p.row][p.col] = ToString(cells[p].number) \o " "

\* the options of the current word that have been dry-run and rejected
Rejected ==
    UNION {FindCandidateIntersections(cells, Current)[k] \ pending[k] :
               k \in 1..Len(pending)} \ candidates

\* C14: a dry run, accepted or rejected, leaves the live grid as it was, and
\* the commit that ends the validation adds the cells of the chosen Bearing
\* and changes no other cell.
C14_DryRunLeavesGrid ==
    [][pc = "validate" =>
         /\ pc' = "validate" => cells' = cells
         /\ pc' = "next" =>
              /\ DOMAIN cells' = DOMAIN cells \cup Covered(word_list'[Len(word_list')])
              /\ \A p \in DOMAIN cells : cells'[p] = cells[p]]_vars

\* during a validation one candidate has been accepted and another has been
\* rejected after its first letter went to a Position that has no cell
C14_Witness ==
    /\ pc = "validate"
    /\ candidates # {}
    /\ \E c \in Rejected : c.position \notin DOMAIN cells

\* C15: every cell a committed word covers carries the flag of the word's
\* direction, from the commit on.
C15_FlagsSetOnCommit ==
    \A i \in Committed : \A p \in Covered(word_list[i]) :
        /\ p \in DOMAIN cells
        /\ word_list[i].start.direction = ACROSS => cells[p].word_across
        /\ word_list[i].start.direction = DOWN => cells[p].word_down

\* C16: the commit of a candidate that passed its dry run succeeds, so
\* CellOccupiedError never leaves the construction and the live grid always
\* consists of whole committed words.
C16_CommitNeverFails ==
    [][/\ (pc = "validate" /\ pc' # "validate" /\ candidates # {}) =>
             /\ pc' = "next"
             /\ err' = ""
             /\ word_list'[Len(word_list')].start \in candidates
       /\ err' # "CellOccupiedError"
       /\ pc' \in {"validate", "next", "error"} =>
             DOMAIN cells' = UNION {Covered(word_list'[i]) : i \in Committed'}]_vars

\* a third word has been committed through a validated candidate
C16_Witness ==
    /\ pc = "next"
    /\ err = ""
    /\ Len(word_list) = 3
    /\ Cardinality(DOMAIN cells) < Len(word_list[1].word) + Len(word_list[2].word) + Len(word_list[3].word)

\* C17: every candidate (anchor, dir) generated for the k-th letter has
\* anchor + dir*(k-1) on a cell of the grid that carries that letter; when
\* some candidate validated, the committed Bearing is a validated one and the
\* committed word covers a cell that was occupied before.
C17_CandidatesIntersect ==
    [][/\ pc' = "validate" =>
            \A k \in 1..Len(pending') : \A c \in pending'[k] :
                LET p == PosAdd(c.position, DirMul(c.direction, k - 1)) IN
                /\ p \in DOMAIN cells'
                /\ cells'[p].letter = word_list'[Len(word_list')].word[k]
       /\ (pc = "validate" /\ pc' = "next" /\ candidates # {}) =>
            /\ word_list'[Len(word_list')].start \in candidates
            /\ Covered(word_list'[Len(word_list')]) \cap DOMAIN cells # {}]_vars

\* the second word crosses the first from an anchor off the first word
C17_Witness ==
    /\ pc = "next"
    /\ Len(word_list) = 2
    /\ Covered(word_list[1]) \cap Covered(word_list[2]) # {}
    /\ word_list[2].start.position \notin Covered(word_list[1])

\* C18: during the placement run every step keeps the occupied Positions and
\* the letter of every cell already written.
C18_GridOnlyGrows ==
    [][(pc = "next" \/ pc = "validate") =>
         /\ DOMAIN cells \subseteq DOMAIN cells'
         /\ \A p \in DOMAIN cells : cells'[p].letter = cells[p].letter]_vars

\* three commits have grown the grid to seven cells or more
C18_Witness ==
    /\ pc = "next"
    /\ Len(word_list) = 3
    /\ Cardinality(DOMAIN cells) >= 7

\* C19: after numbering every placed word has a number of at least 1, the
\* cell at its start carries that number, and a cell at which no word starts
\* has the number 0.
C19_StartCellNumbers ==
    pc = "done" =>
        /\ \A i \in 1..Len(word_list) :
             /\ word_list[i].number >= 1
             /\ cells[word_list[i].start.position].number = word_list[i].number
        /\ \A p \in DOMAIN cells :
             (\A i \in 1..Len(word_list) : word_list[i].start.position # p)
                 => cells[p].number = 0

\* C20: a recenter moves every cell key and every start Position by the
\* negative of the minimum corner, keeps the cells' contents and count and
\* the words' directions and numbers, and every word still reads off the
\* grid from its start.
C20_RecenterTranslates ==
    [][RecenterStep =>
         LET offset == Position(Min(Rows(cells)), Min(Cols(cells))) IN
         /\ DOMAIN cells' = {PosSub(p, offset) : p \in DOMAIN cells}
         /\ Cardinality(DOMAIN cells') = Cardinality(DOMAIN cells)
         /\ \A p \in DOMAIN cells : cells'[PosSub(p, offset)] = cells[p]
         /\ Len(word_list') = Len(word_list)
         /\ \A i \in 1..Len(word_list) :
              /\ word_list'[i].start.position = PosSub(word_list[i].start.position, offset)
              /\ word_list'[i].start.direction = word_list[i].start.direction
              /\ word_list'[i].number = word_list[i].number
              /\ \A k \in 1..Len(word_list'[i].word) :
                   /\ LetterPos(word_list'[i], k) \in DOMAIN cells'
                   /\ cells'[LetterPos(word_list'[i], k)].letter = word_list'[i].word[k]]_vars

\* a numbered layout of three words has been moved to the origin
C20_Witness ==
    /\ pc = "done"
    /\ Len(word_list) = 3
    /\ Position(7, 7) \notin {word_list[i].start.position : i \in 1..3}
    /\ \E p \in DOMAIN cells : p.row = 0
    /\ \E p \in DOMAIN cells : p.col = 0
    /\ \A p \in DOMAIN cells : p.row >= 0 /\ p.col >= 0

====
